---- MODULE Spec2Model ----
(***************************************************************************)
(* RssMonitor: a model of src/RssMonitor/function_v2.py (the concurrent    *)
(* monitor) and src/RssMonitor/function.py (the simple monitor).           *)
(*                                                                         *)
(* Strings are sequences of one-character strings, so that the regular     *)
(* expression search of match_keywords can be computed character by        *)
(* character.                                                              *)
(***************************************************************************)
EXTENDS Integers, Sequences, FiniteSets, TLC

(***************************************************************************)
(* Bounds of the model.                                                    *)
(***************************************************************************)
MaxContentLen == 2
MaxKeywordLen == 1
MaxKeywords == 2
MaxFeeds == 2
\* entries the feeds of one invocation deliver in total
MaxEntries == 3

\* ThreadPoolExecutor(max_workers=5)
max_workers == 5

(***************************************************************************)
(* Characters.  WordChars are the characters of the model that Python's \w *)
(* matches; the blank and the full stop are \W characters; "." and "(" are *)
(* also metacharacters when they occur in a pattern.                       *)
(***************************************************************************)
WordChars == {"a", "A", "b"}
ContentAlphabet == {"a", "b", " "}
KeywordAlphabet == {"a", "A", "b", ".", "("}

IsWord(c) == c \in WordChars

\* str.lower() / re.IGNORECASE folding of one character
LowerMap ==
    [A |-> "a", B |-> "b", C |-> "c", D |-> "d", E |-> "e", F |-> "f", G |-> "g",
     H |-> "h", I |-> "i", J |-> "j", K |-> "k", L |-> "l", M |-> "m", N |-> "n",
     O |-> "o", P |-> "p", Q |-> "q", R |-> "r", S |-> "s", T |-> "t", U |-> "u",
     V |-> "v", W |-> "w", X |-> "x", Y |-> "y", Z |-> "z"]

Lower(c) == IF c \in DOMAIN LowerMap THEN LowerMap[c] ELSE c

\* str.lower()
LowerStr(s) == [j \in 1..Len(s) |-> Lower(s[j])]

\* all strings over alphabet of length at most n
Strings(alphabet, n) == UNION {[1..k -> alphabet] : k \in 0..n}

\* all sequences over S of length at most n
SeqsUpTo(S, n) == UNION {[1..k -> S] : k \in 0..n}

(***************************************************************************)
(* re.search(rf"\b{keyword}\b", content, re.IGNORECASE)                    *)
(* The keyword is interpolated into the pattern unescaped, so it is parsed *)
(* as a regular expression.  Over the characters of the model a pattern is *)
(* built from literals, "." (any character but newline) and groups "(..)". *)
(***************************************************************************)

\* nesting depth after reading the first n characters of the pattern, or -1
\* once a ")" closes a group that was never opened
RECURSIVE Depth(_, _)
Depth(p, n) ==
    IF n = 0 THEN 0
    ELSE LET d == Depth(p, n - 1)
         IN  IF d < 0 THEN -1
             ELSE IF p[n] = "(" THEN d + 1
             ELSE IF p[n] = ")" THEN d - 1
             ELSE d

\* re.compile succeeds: sre_parse raises re.error ("unbalanced parenthesis",
\* "missing ), unterminated subpattern") on unbalanced groups
Compiles(p) == Depth(p, Len(p)) = 0

\* the pattern's atoms in order: groups only concatenate
Atoms(p) == SelectSeq(p, LAMBDA c : c \notin {"(", ")"})

\* one atom against one character of the subject, under re.IGNORECASE
AtomMatches(a, c) == IF a = "." THEN c # "\n" ELSE Lower(a) = Lower(c)

\* \b at offset pos (0 .. Len(s)) of the subject s
Boundary(s, pos) ==
    LET before == pos >= 1 /\ IsWord(s[pos])
        after  == pos < Len(s) /\ IsWord(s[pos + 1])
    IN  before # after

\* mutant of MatchesAt: a plain substring test, without the \b anchors
MatchesAtUnanchored(atoms, s, pos) ==
    /\ pos + Len(atoms) <= Len(s)
    /\ \A j \in 1..Len(atoms) : AtomMatches(atoms[j], s[pos + j])

\* the pattern \b atoms \b matches the subject starting at offset pos
MatchesAt(atoms, s, pos) ==
    /\ pos + Len(atoms) <= Len(s)
    /\ Boundary(s, pos)
    /\ \A j \in 1..Len(atoms) : AtomMatches(atoms[j], s[pos + j])
    /\ Boundary(s, pos + Len(atoms))

\* re.search: some offset matches (the keyword must compile)
Search(keyword, content) ==
    \E pos \in 0..Len(content) : MatchesAt(Atoms(keyword), content, pos)

(***************************************************************************)
(* match_keywords(content, keywords) of function_v2.py, as one result:     *)
(* the list of matches, or the re.error raised at the first keyword that   *)
(* does not compile.                                                       *)
(***************************************************************************)
RECURSIVE MatchLoop(_, _, _, _)
MatchLoop(content, keywords, i, matches) ==
    IF i > Len(keywords) THEN [raised |-> FALSE, matches |-> matches]
    ELSE IF ~Compiles(keywords[i]) THEN [raised |-> TRUE, matches |-> <<>>]
    ELSE MatchLoop(content, keywords, i + 1,
                   IF Search(keywords[i], content)
                   THEN Append(matches, keywords[i]) ELSE matches)

match_keywords(content, keywords) == MatchLoop(content, keywords, 1, <<>>)

(***************************************************************************)
(* Feeds as feedparser.parse answers them.  A response either raises, or   *)
(* carries the list feed.entries.  An entry is a dictionary with some of   *)
(* the keys title, summary and link; an entry with the key "poison" stands *)
(* for an item whose processing raises inside the loop of process_feed.    *)
(***************************************************************************)
MatchingEntry == [title |-> <<"a">>, summary |-> <<"b">>, link |-> <<"u">>]
OtherEntry == [summary |-> <<"b", "a">>]
PoisonEntry == [poison |-> TRUE]

EntryPool == {MatchingEntry, OtherEntry, PoisonEntry}

FetchRaises == [raises |-> TRUE, entries |-> <<>>]

\* a future whose fetch has not answered yet
NotFetched == [raises |-> FALSE, entries |-> <<>>]

\* the entries the feeds have delivered so far in this invocation
RECURSIVE EntriesFetched(_)
EntriesFetched(fetchedList) ==
    IF fetchedList = <<>> THEN 0
    ELSE Len(Head(fetchedList).entries) + EntriesFetched(Tail(fetchedList))

\* what feedparser.parse may answer when the feeds of the invocation may
\* still deliver `budget` entries
FeedResponses(budget) ==
    {FetchRaises} \cup {[raises |-> FALSE, entries |-> es] : es \in SeqsUpTo(EntryPool, budget)}

\* the keyword lists a configuration may carry: none (the default of
\* config.get("keywords", [])), two plain keywords, or a keyword that is no
\* regular expression
KeywordConfigs == {<<>>, <<<<"b">>, <<"A">>>>, <<<<"a">>, <<"(">>>>}

\* entry.get(key, "")
Get(entry, key) == IF key \in DOMAIN entry THEN entry[key] ELSE <<>>

EntryRaises(entry) == "poison" \in DOMAIN entry

\* mutant of KeepEntry: every entry becomes a matched entry
KeepEveryEntry(matched_keywords) == TRUE

\* `if matched_keywords:`
KeepEntry(matched_keywords) == matched_keywords # <<>>

\* results["error"] = str(e): the dictionary gains the key "error"
WithError(res, e) == [feed |-> res.feed, matches |-> res.matches, error |-> e]

\* the loop `for entry in feed.entries` of process_feed, from entry i on;
\* res is the dictionary `results`, which the loop appends to in place
RECURSIVE EntryLoop(_, _, _, _)
EntryLoop(entries, kws, i, res) ==
    IF i > Len(entries) THEN res
    ELSE IF EntryRaises(entries[i]) THEN WithError(res, "entry")
    ELSE LET title   == Get(entries[i], "title")
             summary == Get(entries[i], "summary")
             content == title \o <<" ">> \o summary
             mk      == match_keywords(content, kws)
         IN  IF mk.raised THEN WithError(res, "re.error")
             ELSE IF KeepEntry(mk.matches)
             THEN EntryLoop(entries, kws, i + 1,
                            [res EXCEPT !.matches =
                                Append(@, [title    |-> title,
                                           url      |-> Get(entries[i], "link"),
                                           keywords |-> mk.matches])])
             ELSE EntryLoop(entries, kws, i + 1, res)

\* process_feed(feed_url, keywords), given what feedparser.parse answers
process_feed(feed_url, kws, parsed) ==
    LET res == [feed |-> feed_url, matches |-> <<>>]
    IN  IF parsed.raises THEN WithError(res, "fetch")
        ELSE EntryLoop(parsed.entries, kws, 1, res)

\* ', '.join(strings)
RECURSIVE Join(_)
Join(strings) ==
    IF strings = <<>> THEN <<>>
    ELSE IF Len(strings) = 1 THEN strings[1]
    ELSE strings[1] \o <<",", " ">> \o Join(Tail(strings))

\* the attachments send_alert builds for one alert
AttachmentsOf(alert) ==
    [j \in 1..Len(alert.matches) |->
        [title      |-> alert.matches[j].title,
         title_link |-> alert.matches[j].url,
         text       |-> [matched_keywords |-> Join(alert.matches[j].keywords),
                         source           |-> alert.feed]]]

\* the nested loops of send_alert over alerts and their matches
RECURSIVE Attachments(_)
Attachments(alertList) ==
    IF alertList = <<>> THEN <<>>
    ELSE AttachmentsOf(Head(alertList)) \o Attachments(Tail(alertList))

\* mutant of send_alert: one request per alert
send_alert_per_feed(alertList) ==
    [j \in 1..Len(alertList) |->
        [text |-> "Threat Intelligence Alert", attachments |-> AttachmentsOf(alertList[j])]]

\* send_alert(alerts): the request bodies it hands to requests.post
send_alert(alertList) ==
    <<[text |-> "Threat Intelligence Alert", attachments |-> Attachments(alertList)]>>

\* alerts = [result for result in results if "matches" in result and result["matches"]]
select_alerts(resultList) ==
    SelectSeq(resultList, LAMBDA r : "matches" \in DOMAIN r /\ r.matches # <<>>)

\* mutant of alerts_sent: feeds are counted only when the webhook answered 200
alerts_sent_if_delivered(alertList, status) ==
    IF status = 200 THEN Len(alertList) ELSE 0

\* "alerts_sent": len(alerts), whatever the webhook answered
alerts_sent(alertList, status) == Len(alertList)

\* the dictionary `summary` of lambda_handler
build_summary(feedList, alertList, status) ==
    [total_feeds_checked |-> Len(feedList),
     feeds_with_matches  |-> Len(alertList),
     alerts_sent         |-> alerts_sent(alertList, status),
     details             |-> alertList]

\* mutant of next_future: results are taken as the futures complete
next_future_as_completed(resultList, fut) ==
    {i \in DOMAIN fut : fut[i].state = "done" /\ \A j \in 1..Len(resultList) : resultList[j].feed # i}

\* `for future in futures: results.append(future.result())`: the future
\* whose result is taken next (submission order), once it is done
next_future(resultList, fut) ==
    {i \in DOMAIN fut : i = Len(resultList) + 1 /\ fut[i].state = "done"}

\* mutant of pool_joined: the report is built as soon as one result is in
pool_joined_on_first(resultList, fut) ==
    Len(fut) = 0 \/ Len(resultList) >= 1

\* leaving `with ThreadPoolExecutor(...)`: every result was taken and
\* shutdown(wait=True) has joined the workers
pool_joined(resultList, fut) ==
    /\ Len(resultList) = Len(fut)
    /\ \A i \in DOMAIN fut : fut[i].state = "done"

(***************************************************************************)
(* function.py: the simple monitor.  Its feeds and keywords are module     *)
(* constants, it matches by substring and it alerts entry by entry.        *)
(***************************************************************************)
RSS_FEEDS == <<"securityweek", "TheHackersNews", "dailydarkweb">>

KEYWORDS ==
    << <<"I", "n", "d", "o", "n", "e", "s", "i", "a">>,
       <<"D", "a", "t", "a", " ", "B", "r", "e", "a", "c", "h">>,
       <<"C", "y", "b", "e", "r", " ", "A", "t", "t", "a", "c", "k">>,
       <<"R", "a", "n", "s", "o", "m", "w", "a", "r", "e">>,
       <<"Z", "e", "r", "o", "-", "D", "a", "y">> >>

\* `needle in haystack` on strings
Contains(haystack, needle) ==
    \E pos \in 0..(Len(haystack) - Len(needle)) :
        \A j \in 1..Len(needle) : haystack[pos + j] = needle[j]

\* match_keywords(content) of function.py
v1_match_keywords(content) ==
    \E k \in 1..Len(KEYWORDS) : Contains(LowerStr(content), LowerStr(KEYWORDS[k]))

\* an item whose title holds a keyword inside a larger word, in capitals
V1MatchingEntry ==
    [title |-> <<"R", "A", "N", "S", "O", "M", "W", "A", "R", "E", "S">>, link |-> <<"u">>]
V1OtherEntry == [title |-> <<"z", "e", "r", "o">>, description |-> <<"d", "a", "y">>]

V1EntryPool == {V1MatchingEntry, V1OtherEntry, PoisonEntry}

V1Responses(budget) ==
    {FetchRaises} \cup {[raises |-> FALSE, entries |-> es] : es \in SeqsUpTo(V1EntryPool, budget)}

\* content = f"{title} {description}" of one entry
V1Content(entry) == Get(entry, "title") \o <<" ">> \o Get(entry, "description")

\* the message send_alert(title, link, source) of function.py posts
v1_send_alert(title, link, source) == [text |-> [title |-> title, source |-> source, link |-> link]]

(***************************************************************************)
(* State.                                                                  *)
(*   mk_*        one call of match_keywords: its arguments, loop index,    *)
(*               the local list `matches` and where the call is            *)
(*   pc          where lambda_handler is                                   *)
(*   feeds, keywords   the loaded configuration                            *)
(*   submitted   how many futures executor.submit has created              *)
(*   future      per feed, the state of its future and, once done, what    *)
(*               process_feed returned                                     *)
(*   fetched     per feed, what feedparser.parse answered                  *)
(*   results     the list `results` of lambda_handler                      *)
(*   alerts      the list `alerts` of lambda_handler                       *)
(*   posts       the bodies handed to requests.post, in order              *)
(*   post_status the status code of the last webhook response (0: none)    *)
(*   exception   the exception that left lambda_handler ("" : none)        *)
(*   response    what lambda_handler returned                              *)
(*   v1_*        the loop position of function.py's lambda_handler         *)
(***************************************************************************)
VARIABLES mk_content, mk_keywords, mk_i, mk_matches, mk_pc,
          pc, feeds, keywords, submitted, future, fetched, results, alerts,
          posts, post_status, exception, response,
          v1_feed, v1_entries, v1_entry

mk_vars == <<mk_content, mk_keywords, mk_i, mk_matches, mk_pc>>

handler_vars == <<pc, feeds, keywords, submitted, future, fetched, results, alerts,
                  posts, post_status, exception, response>>

v1_vars == <<v1_feed, v1_entries, v1_entry>>

vars == <<mk_vars, handler_vars, v1_vars>>

\* no call of match_keywords is being traced
MatchIdle ==
    /\ mk_content = <<>>
    /\ mk_keywords = <<>>
    /\ mk_i = 1
    /\ mk_matches = <<>>
    /\ mk_pc = "idle"

\* no handler is running
HandlerIdle ==
    /\ pc = "idle"
    /\ feeds = <<>>
    /\ keywords = <<>>
    /\ submitted = 0
    /\ future = <<>>
    /\ fetched = <<>>
    /\ results = <<>>
    /\ alerts = <<>>
    /\ posts = <<>>
    /\ post_status = 0
    /\ exception = ""
    /\ response = <<>>

V1Idle ==
    /\ v1_feed = 0
    /\ v1_entries = <<>>
    /\ v1_entry = 0

MatchInit ==
    /\ mk_content \in Strings(ContentAlphabet, MaxContentLen)
    /\ mk_keywords \in SeqsUpTo(Strings(KeywordAlphabet, MaxKeywordLen), MaxKeywords)
    /\ mk_i = 1
    /\ mk_matches = <<>>
    /\ mk_pc = "loop"
    /\ HandlerIdle
    /\ V1Idle

\* one iteration of `for keyword in keywords`
MatchStep ==
    /\ mk_pc = "loop"
    /\ mk_i <= Len(mk_keywords)
    /\ Compiles(mk_keywords[mk_i])
    /\ mk_matches' = IF Search(mk_keywords[mk_i], mk_content)
                     THEN Append(mk_matches, mk_keywords[mk_i])
                     ELSE mk_matches
    /\ mk_i' = mk_i + 1
    /\ UNCHANGED <<mk_content, mk_keywords, mk_pc, handler_vars, v1_vars>>

\* re.search raises re.error: the exception leaves match_keywords
MatchRaise ==
    /\ mk_pc = "loop"
    /\ mk_i <= Len(mk_keywords)
    /\ ~Compiles(mk_keywords[mk_i])
    /\ mk_pc' = "raised"
    /\ UNCHANGED <<mk_content, mk_keywords, mk_i, mk_matches, handler_vars, v1_vars>>

\* `return matches`
MatchReturn ==
    /\ mk_pc = "loop"
    /\ mk_i > Len(mk_keywords)
    /\ mk_pc' = "returned"
    /\ UNCHANGED <<mk_content, mk_keywords, mk_i, mk_matches, handler_vars, v1_vars>>

MatchNext == MatchStep \/ MatchRaise \/ MatchReturn

SpecMatch == MatchInit /\ [][MatchNext]_vars


(***************************************************************************)
(* lambda_handler of function_v2.py.                                       *)
(***************************************************************************)
HandlerInit ==
    /\ MatchIdle
    /\ V1Idle
    /\ pc = "load"
    /\ feeds = <<>>
    /\ keywords = <<>>
    /\ submitted = 0
    /\ future = <<>>
    /\ fetched = <<>>
    /\ results = <<>>
    /\ alerts = <<>>
    /\ posts = <<>>
    /\ post_status = 0
    /\ exception = ""
    /\ response = <<>>

\* load_config_from_s3 returns; feeds and keywords default to []
LoadConfig ==
    /\ pc = "load"
    /\ \E n \in 0..MaxFeeds, kws \in KeywordConfigs :
        /\ feeds' = [i \in 1..n |-> i]
        /\ keywords' = kws
    /\ pc' = "pool"
    /\ UNCHANGED <<submitted, future, fetched, results, alerts, posts, post_status,
                   exception, response, mk_vars, v1_vars>>

\* load_config_from_s3 raises: the exception leaves lambda_handler
LoadConfigFails ==
    /\ pc = "load"
    /\ pc' = "raised"
    /\ exception' = "ConfigLoadError"
    /\ UNCHANGED <<feeds, keywords, submitted, future, fetched, results, alerts, posts,
                   post_status, response, mk_vars, v1_vars>>

\* executor.submit(process_feed, feed, keywords) for the next feed
Submit ==
    /\ pc = "pool"
    /\ submitted < Len(feeds)
    /\ submitted' = submitted + 1
    /\ future' = Append(future, [state |-> "queued", result |-> <<>>])
    /\ fetched' = Append(fetched, NotFetched)
    /\ UNCHANGED <<pc, feeds, keywords, results, alerts, posts, post_status,
                   exception, response, mk_vars, v1_vars>>

\* a worker thread takes the oldest queued call; at most max_workers threads
WorkerStart(i) ==
    /\ future[i].state = "queued"
    /\ \A j \in 1..(i - 1) : future[j].state # "queued"
    /\ Cardinality({j \in DOMAIN future : future[j].state \in {"running", "hung"}}) < max_workers
    /\ future' = [future EXCEPT ![i].state = "running"]
    /\ UNCHANGED <<pc, feeds, keywords, submitted, fetched, results, alerts, posts,
                   post_status, exception, response, mk_vars, v1_vars>>

\* feedparser.parse answers and process_feed runs to its return
WorkerFinish(i) ==
    /\ future[i].state = "running"
    /\ \E parsed \in FeedResponses(MaxEntries - EntriesFetched(fetched)) :
        /\ fetched' = [fetched EXCEPT ![i] = parsed]
        /\ future' = [future EXCEPT ![i] =
                        [state |-> "done", result |-> process_feed(feeds[i], keywords, parsed)]]
    /\ UNCHANGED <<pc, feeds, keywords, submitted, results, alerts, posts,
                   post_status, exception, response, mk_vars, v1_vars>>

\* feedparser.parse(feed_url) is called without a timeout: an unresponsive
\* server keeps the worker in the call for ever
WorkerHangs(i) ==
    /\ future[i].state = "running"
    /\ future' = [future EXCEPT ![i].state = "hung"]
    /\ UNCHANGED <<pc, feeds, keywords, submitted, fetched, results, alerts, posts,
                   post_status, exception, response, mk_vars, v1_vars>>

\* results.append(future.result()): blocks until that future is done
Collect ==
    /\ pc = "pool"
    /\ submitted = Len(feeds)
    /\ \E i \in next_future(results, future) :
        results' = Append(results, future[i].result)
    /\ UNCHANGED <<pc, feeds, keywords, submitted, future, fetched, alerts, posts,
                   post_status, exception, response, mk_vars, v1_vars>>

\* the `with` block is left and alerts is computed
ExitPool ==
    /\ pc = "pool"
    /\ submitted = Len(feeds)
    /\ pool_joined(results, future)
    /\ alerts' = select_alerts(results)
    /\ pc' = IF alerts' # <<>> THEN "send" ELSE "summarise"
    /\ UNCHANGED <<feeds, keywords, submitted, future, fetched, results, posts,
                   post_status, exception, response, mk_vars, v1_vars>>

\* send_alert(alerts): requests.post returns a response; a status other
\* than 200 is printed and nothing else
SendAlert ==
    /\ pc = "send"
    /\ posts' = posts \o send_alert(alerts)
    /\ \E status \in {200, 500} : post_status' = status
    /\ pc' = "summarise"
    /\ UNCHANGED <<feeds, keywords, submitted, future, fetched, results, alerts,
                   exception, response, mk_vars, v1_vars>>

\* requests.post raises: nothing catches it in send_alert or lambda_handler
SendAlertRaises ==
    /\ pc = "send"
    /\ posts' = posts \o send_alert(alerts)
    /\ exception' = "RequestException"
    /\ pc' = "raised"
    /\ UNCHANGED <<feeds, keywords, submitted, future, fetched, results, alerts,
                   post_status, response, mk_vars, v1_vars>>

\* the summary is built and returned
Return ==
    /\ pc = "summarise"
    /\ response' = [statusCode |-> 200, body |-> build_summary(feeds, alerts, post_status)]
    /\ pc' = "done"
    /\ UNCHANGED <<feeds, keywords, submitted, future, fetched, results, alerts, posts,
                   post_status, exception, mk_vars, v1_vars>>

Next ==
    \/ LoadConfig
    \/ LoadConfigFails
    \/ Submit
    \/ \E i \in DOMAIN future : WorkerStart(i)
    \/ \E i \in DOMAIN future : WorkerFinish(i)
    \/ \E i \in DOMAIN future : WorkerHangs(i)
    \/ Collect
    \/ ExitPool
    \/ SendAlert
    \/ SendAlertRaises
    \/ Return

Spec == HandlerInit /\ [][Next]_vars

\* threads that can run do run; whether a server answers is not the
\* program's to decide, so no fairness is asked of WorkerFinish against
\* WorkerHangs
FairSpec == Spec /\ WF_vars(Next)

(***************************************************************************)
(* lambda_handler of function.py: feeds in turn, entries in turn, one      *)
(* send_alert per entry that matches.  Nothing catches an exception.       *)
(***************************************************************************)
V1Init ==
    /\ MatchIdle
    /\ pc = "v1_feeds"
    /\ feeds = RSS_FEEDS
    /\ keywords = KEYWORDS
    /\ submitted = 0
    /\ future = <<>>
    /\ fetched = <<>>
    /\ results = <<>>
    /\ alerts = <<>>
    /\ posts = <<>>
    /\ post_status = 0
    /\ exception = ""
    /\ response = <<>>
    /\ v1_feed = 0
    /\ v1_entries = <<>>
    /\ v1_entry = 0

\* feed = feedparser.parse(feed_url) for the next feed
V1Parse ==
    /\ pc = "v1_feeds"
    /\ v1_feed < Len(feeds)
    /\ \E parsed \in V1Responses(MaxEntries - EntriesFetched(fetched)) :
        /\ ~parsed.raises
        /\ fetched' = Append(fetched, parsed)
        /\ v1_entries' = parsed.entries
    /\ v1_feed' = v1_feed + 1
    /\ v1_entry' = 0
    /\ pc' = "v1_entries"
    /\ UNCHANGED <<feeds, keywords, submitted, future, results, alerts, posts,
                   post_status, exception, response, mk_vars>>

\* feedparser.parse raises
V1ParseRaises ==
    /\ pc = "v1_feeds"
    /\ v1_feed < Len(feeds)
    /\ fetched' = Append(fetched, FetchRaises)
    /\ v1_feed' = v1_feed + 1
    /\ exception' = "fetch"
    /\ pc' = "v1_raised"
    /\ UNCHANGED <<feeds, keywords, submitted, future, results, alerts, posts,
                   post_status, response, mk_vars, v1_entries, v1_entry>>

\* the next entry does not match, or raises
V1Entry ==
    /\ pc = "v1_entries"
    /\ v1_entry < Len(v1_entries)
    /\ v1_entry' = v1_entry + 1
    /\ LET entry == v1_entries[v1_entry + 1]
       IN  IF EntryRaises(entry)
           THEN /\ exception' = "entry"
                /\ pc' = "v1_raised"
           ELSE /\ ~v1_match_keywords(V1Content(entry))
                /\ UNCHANGED <<exception, pc>>
    /\ UNCHANGED <<feeds, keywords, submitted, future, fetched, results, alerts, posts,
                   post_status, response, mk_vars, v1_feed, v1_entries>>

\* the next entry matches: send_alert(title, link, feed_url) posts it
V1EntryAlert ==
    /\ pc = "v1_entries"
    /\ v1_entry < Len(v1_entries)
    /\ v1_entry' = v1_entry + 1
    /\ LET entry == v1_entries[v1_entry + 1]
       IN  /\ ~EntryRaises(entry)
           /\ v1_match_keywords(V1Content(entry))
           /\ posts' = Append(posts, v1_send_alert(Get(entry, "title"), Get(entry, "link"),
                                                   feeds[v1_feed]))
    /\ \E status \in {200, 500} : post_status' = status
    /\ UNCHANGED <<pc, feeds, keywords, submitted, future, fetched, results, alerts,
                   exception, response, mk_vars, v1_feed, v1_entries>>

\* the next entry matches and requests.post raises
V1EntryAlertRaises ==
    /\ pc = "v1_entries"
    /\ v1_entry < Len(v1_entries)
    /\ v1_entry' = v1_entry + 1
    /\ LET entry == v1_entries[v1_entry + 1]
       IN  /\ ~EntryRaises(entry)
           /\ v1_match_keywords(V1Content(entry))
           /\ posts' = Append(posts, v1_send_alert(Get(entry, "title"), Get(entry, "link"),
                                                   feeds[v1_feed]))
    /\ exception' = "RequestException"
    /\ pc' = "v1_raised"
    /\ UNCHANGED <<feeds, keywords, submitted, future, fetched, results, alerts,
                   post_status, response, mk_vars, v1_feed, v1_entries>>

\* the entries of this feed are exhausted
V1NextFeed ==
    /\ pc = "v1_entries"
    /\ v1_entry = Len(v1_entries)
    /\ pc' = "v1_feeds"
    /\ UNCHANGED <<feeds, keywords, submitted, future, fetched, results, alerts, posts,
                   post_status, exception, response, mk_vars, v1_vars>>

\* every feed was read
V1Return ==
    /\ pc = "v1_feeds"
    /\ v1_feed = Len(feeds)
    /\ response' = [statusCode |-> 200, body |-> "RSS Feed Monitoring Completed"]
    /\ pc' = "v1_done"
    /\ UNCHANGED <<feeds, keywords, submitted, future, fetched, results, alerts, posts,
                   post_status, exception, mk_vars, v1_vars>>

V1Next ==
    \/ V1Parse
    \/ V1ParseRaises
    \/ V1Entry
    \/ V1EntryAlert
    \/ V1EntryAlertRaises
    \/ V1NextFeed
    \/ V1Return

\* both monitors: an invocation runs one lambda_handler or the other
VariantsNext ==
    \/ LoadConfig
    \/ LoadConfigFails
    \/ Submit
    \/ \E i \in DOMAIN future : WorkerStart(i)
    \/ \E i \in DOMAIN future : WorkerFinish(i)
    \/ \E i \in DOMAIN future : WorkerHangs(i)
    \/ Collect
    \/ ExitPool
    \/ SendAlert
    \/ SendAlertRaises
    \/ Return
    \/ V1Parse
    \/ V1ParseRaises
    \/ V1Entry
    \/ V1EntryAlert
    \/ V1EntryAlertRaises
    \/ V1NextFeed
    \/ V1Return

VariantsInit == HandlerInit \/ V1Init

SpecVariants == VariantsInit /\ [][VariantsNext]_vars

(***************************************************************************)
(* C8: what match_keywords returns.                                        *)
(***************************************************************************)

\* the keyword occurs in the content, compared case-insensitively character
\* by character, and the occurrence is not inside a larger word
OccursAsWholeWord(keyword, content) ==
    \E pos \in 0..(Len(content) - Len(keyword)) :
        /\ \A j \in 1..Len(keyword) : Lower(keyword[j]) = Lower(content[pos + j])
        /\ pos = 0 \/ ~IsWord(content[pos])
        /\ pos + Len(keyword) = Len(content) \/ ~IsWord(content[pos + Len(keyword) + 1])

WholeWordMatches(content, kws) ==
    SelectSeq(kws, LAMBDA k : OccursAsWholeWord(k, content))

\* a keyword without regular-expression metacharacters that begins and ends
\* with a word character
PlainKeyword(k) ==
    /\ Len(k) >= 1
    /\ \A j \in 1..Len(k) : k[j] \notin {".", "(", ")"}
    /\ IsWord(k[1])
    /\ IsWord(k[Len(k)])

AllPlain(kws) == \A j \in 1..Len(kws) : PlainKeyword(kws[j])

\* C8 as stated: match_keywords never raises and returns exactly the
\* keywords, in the order supplied, that occur in the content as whole words.
C8_AsStated ==
    /\ mk_pc # "raised"
    /\ mk_pc = "returned" => mk_matches = WholeWordMatches(mk_content, mk_keywords)

\* C8 amended: when every keyword is a plain literal beginning and ending
\* with a word character, match_keywords does not raise, the matches
\* collected so far are the whole-word occurrences among the keywords
\* already tried, in the order supplied, and the returned list is the
\* whole-word occurrences among all keywords (empty for no keywords, for
\* empty content and when nothing occurs).
C8_PlainKeywordsWholeWord ==
    AllPlain(mk_keywords) =>
        /\ mk_pc # "raised"
        /\ mk_matches = WholeWordMatches(mk_content, SubSeq(mk_keywords, 1, mk_i - 1))
        /\ mk_pc = "returned" =>
              /\ mk_matches = WholeWordMatches(mk_content, mk_keywords)
              /\ mk_matches = match_keywords(mk_content, mk_keywords).matches
              /\ (mk_keywords = <<>> \/ mk_content = <<>>) => mk_matches = <<>>

\* two plain keywords, the first absent from the content, the second a
\* whole word of it in another case: only the second is returned
C8_Witness ==
    /\ mk_pc = "returned"
    /\ mk_content = <<" ", "a">>
    /\ mk_keywords = <<<<"b">>, <<"A">>>>
    /\ mk_matches = <<<<"A">>>>

(***************************************************************************)
(* Properties of lambda_handler.                                           *)
(***************************************************************************)

\* the invocation has ended, by a return or by an exception
Finished == pc \in {"done", "raised"}

\* the scan is over and the report is being, or has been, built
PastPool == pc \in {"send", "summarise", "done"} \/ exception = "RequestException"

\* what feedparser.parse answered makes process_feed catch an exception:
\* the fetch raises, or the loop meets an entry that raises or hands a
\* keyword that is no regular expression to re.search
ResponseFails(parsed, kws) ==
    \/ parsed.raises
    \/ /\ parsed.entries # <<>>
       /\ \/ \E j \in 1..Len(parsed.entries) : EntryRaises(parsed.entries[j])
          \/ \E k \in 1..Len(kws) : ~Compiles(kws[k])

\* the keywords an entry matches, by whole-word occurrence
EntryKeywords(entry, kws) ==
    WholeWordMatches(Get(entry, "title") \o <<" ">> \o Get(entry, "summary"), kws)

\* the matched entries a feed yields when nothing fails
ExpectedMatches(parsed, kws) ==
    LET hit == SelectSeq(parsed.entries, LAMBDA e : EntryKeywords(e, kws) # <<>>)
    IN  [j \in 1..Len(hit) |->
            [title |-> Get(hit[j], "title"), url |-> Get(hit[j], "link"),
             keywords |-> EntryKeywords(hit[j], kws)]]

RECURSIVE TotalMatches(_)
TotalMatches(resultList) ==
    IF resultList = <<>> THEN 0
    ELSE Len(Head(resultList).matches) + TotalMatches(Tail(resultList))

\* the scan part of C1: one result per feed in the order configured, a
\* result is error-marked exactly when its feed failed, and a feed that
\* did not fail has the matches it would have had in any company
ScanTolerant ==
    /\ Len(results) = Len(feeds)
    /\ \A i \in 1..Len(feeds) :
        /\ results[i].feed = feeds[i]
        /\ ("error" \in DOMAIN results[i]) <=> ResponseFails(fetched[i], keywords)
        /\ ~ResponseFails(fetched[i], keywords) =>
              results[i].matches = ExpectedMatches(fetched[i], keywords)
    /\ (\E i \in 1..Len(feeds) :
            ~ResponseFails(fetched[i], keywords) /\ results[i].matches # <<>>)
          => Len(posts) = 1 \/ pc = "send"

\* C1 (partial-failure tolerance) as stated: once the configuration is
\* loaded, whatever feeds fail, lambda_handler completes with statusCode 200
\* with one result per feed, error-marked for the failed feeds, the
\* successful feeds' matches untouched, and send_alert invoked whenever a
\* successful feed has a match.
C1_AsStated ==
    /\ (Finished /\ \E i \in 1..Len(results) : "error" \in DOMAIN results[i]) =>
            (pc = "done" /\ response.statusCode = 200)
    /\ PastPool => ScanTolerant

\* C3 (delivery failure is absorbed) as stated: a POST that raises or
\* answers a status other than 200 is not retried and does not fail the
\* invocation, which returns statusCode 200; only a configuration-load
\* failure leaves lambda_handler as an exception.
C3_AsStated ==
    /\ Len(posts) <= 1
    /\ exception \in {"", "ConfigLoadError"}
    /\ (Finished /\ posts # <<>>) => (pc = "done" /\ response.statusCode = 200)

\* C4 (a feed that errors contributes no matches) as stated: a result of
\* process_feed that carries an error has an empty match list, and its feed
\* is in no alert, attachment or summary detail.
C4_AsStated ==
    /\ \A i \in DOMAIN future :
        (future[i].state = "done" /\ "error" \in DOMAIN future[i].result)
            => future[i].result.matches = <<>>
    /\ \A j \in 1..Len(alerts) : "error" \notin DOMAIN alerts[j]
    /\ \A p \in 1..Len(posts) : \A a \in 1..Len(posts[p].attachments) :
        \A i \in 1..Len(results) :
            "error" \in DOMAIN results[i] => posts[p].attachments[a].text.source # results[i].feed
    /\ pc = "done" =>
        \A j \in 1..Len(response.body.details) : "error" \notin DOMAIN response.body.details[j]

\* C5 (join barrier): whenever the alerts, the POST or the summary exist,
\* every feed was submitted, every submitted process_feed has returned, and
\* results holds the result of each, none dropped.
C5_JoinBarrier ==
    (PastPool \/ alerts # <<>> \/ posts # <<>>) =>
        /\ submitted = Len(feeds)
        /\ Len(future) = Len(feeds)
        /\ Len(results) = Len(feeds)
        /\ \A i \in 1..Len(feeds) :
            /\ future[i].state = "done"
            /\ results[i] = future[i].result

\* two feeds, both scanned, the report sent
C5_Witness ==
    /\ pc = "done"
    /\ Len(feeds) = 2
    /\ Len(results) = 2
    /\ Len(posts) = 1

\* the alerts the configuration and the feeds' answers determine, in the
\* order the feeds are configured
ExpectedAlerts ==
    SelectSeq([i \in 1..Len(feeds) |-> process_feed(feeds[i], keywords, fetched[i])],
              LAMBDA r : r.matches # <<>>)

\* C7 (determinism): the alerts, the payload and the summary's details are
\* a function of the feed list, the keywords and the feeds' contents alone,
\* whatever the interleaving of the workers, and list the feeds in the order
\* they were configured; so two runs on the same inputs agree.
C7_Deterministic ==
    PastPool =>
        LET expected == ExpectedAlerts
        IN  /\ alerts = expected
            /\ \A j, k \in 1..Len(alerts) : j < k => alerts[j].feed < alerts[k].feed
            /\ posts # <<>> => posts = send_alert(expected)
            /\ pc = "done" => response.body.details = expected

\* both of two feeds have matches and the summary is returned
C7_Witness ==
    /\ pc = "done"
    /\ Len(feeds) = 2
    /\ Len(response.body.details) = 2
    /\ response.body.details[1].feed = 1
    /\ response.body.details[2].feed = 2

\* a result is well formed: every matched entry has a keyword
WellFormed(res) == \A j \in 1..Len(res.matches) : res.matches[j].keywords # <<>>

\* C9 (report well-formedness): every matched entry of every result of
\* process_feed has a non-empty keyword list, a feed that did not fail has
\* one matched entry for each entry with a matching keyword and none for the
\* others, every feed listed in alerts or details has a matched entry, feeds
\* without matches are counted but not listed, and feeds_with_matches is the
\* number of feeds listed.
C9_WellFormed ==
    /\ \A i \in DOMAIN future : future[i].state = "done" =>
        /\ WellFormed(future[i].result)
        /\ ~ResponseFails(fetched[i], keywords) =>
              future[i].result.matches = ExpectedMatches(fetched[i], keywords)
    /\ \A j \in 1..Len(alerts) : alerts[j].matches # <<>> /\ WellFormed(alerts[j])
    /\ pc = "done" =>
        LET body == response.body
        IN  /\ body.total_feeds_checked = Len(feeds)
            /\ body.feeds_with_matches = Len(body.details)
            /\ \A j \in 1..Len(body.details) :
                body.details[j].matches # <<>> /\ WellFormed(body.details[j])
            /\ \A i \in 1..Len(results) :
                (results[i].matches = <<>>) <=>
                    ~\E j \in 1..Len(body.details) : body.details[j].feed = results[i].feed

\* two feeds are counted, one is listed: it has a matching entry beside one
\* that matches nothing, the other feed has no match
C9_Witness ==
    /\ pc = "done"
    /\ response.body.total_feeds_checked = 2
    /\ response.body.feeds_with_matches = 1
    /\ fetched[1].entries = <<OtherEntry, MatchingEntry>>
    /\ Len(results[1].matches) = 1
    /\ results[2].matches = <<>>

\* C10: in the returned summary alerts_sent is feeds_with_matches, the
\* number of feeds with a match, whatever the webhook answered; it is 0
\* exactly when no POST was attempted; and the summary does not depend on
\* the status of the POST.
C10_AlertsSentIsFeedsWithMatches ==
    pc = "done" =>
        LET body     == response.body
            expected == ExpectedAlerts
        IN  /\ body.alerts_sent = body.feeds_with_matches
            /\ body.feeds_with_matches =
                   Cardinality({i \in 1..Len(results) : results[i].matches # <<>>})
            /\ (body.alerts_sent = 0) <=> (posts = <<>>)
            /\ body = [total_feeds_checked |-> Len(feeds),
                       feeds_with_matches  |-> Len(expected),
                       alerts_sent         |-> Len(expected),
                       details             |-> expected]

\* the webhook answered 500 and the summary still reports the alert as sent
C10_Witness ==
    /\ pc = "done"
    /\ post_status = 500
    /\ Len(posts) = 1
    /\ response.body.alerts_sent >= 1

\* C6 (bounded response under an unresponsive feed) as stated: once a fetch
\* never returns, the invocation still ends.
C6_AsStated ==
    (\E i \in DOMAIN future : future[i].state = "hung") ~> Finished

(***************************************************************************)
(* C2: batching, over both monitors.                                       *)
(***************************************************************************)

\* every matched entry of every alert has its attachment in the payload
PayloadCovers(payload, alertList) ==
    /\ Len(payload.attachments) = TotalMatches(alertList)
    /\ \A j \in 1..Len(alertList) : \A m \in 1..Len(alertList[j].matches) :
        \E a \in 1..Len(payload.attachments) :
            /\ payload.attachments[a].title = alertList[j].matches[m].title
            /\ payload.attachments[a].title_link = alertList[j].matches[m].url
            /\ payload.attachments[a].text.source = alertList[j].feed

\* the entries function.py has matched so far: those of the feeds already
\* read, up to the entry the loop has reached in the last of them
V1Processed(f) ==
    IF f < Len(fetched) \/ fetched[f].raises THEN fetched[f].entries
    ELSE SubSeq(fetched[f].entries, 1, v1_entry)

RECURSIVE V1MatchedUpTo(_)
V1MatchedUpTo(f) ==
    IF f = 0 THEN 0
    ELSE V1MatchedUpTo(f - 1)
         + Len(SelectSeq(V1Processed(f),
                         LAMBDA e : ~EntryRaises(e) /\ v1_match_keywords(V1Content(e))))

V1Running == pc \in {"v1_feeds", "v1_entries", "v1_done", "v1_raised"}

\* C2 (batching) as stated: every invocation of lambda_handler posts once
\* when the scan found a matched entry, with one attachment per matched
\* entry, and never when it found none; never once per feed or per entry.
C2_AsStated ==
    /\ Len(posts) <= 1
    /\ pc = "done" =>
        IF TotalMatches(results) >= 1
        THEN Len(posts) = 1 /\ PayloadCovers(posts[1], alerts)
        ELSE posts = <<>>
    /\ pc = "v1_done" => (posts = <<>> <=> V1MatchedUpTo(Len(fetched)) = 0)

\* C2 amended: function_v2.py's lambda_handler posts at most once; when it
\* ends past the scan it has posted exactly once if the results hold a
\* matched entry, with one attachment for each matched entry of each result,
\* and not at all otherwise.  function.py's lambda_handler posts once for
\* each matched entry it has processed.
C2_BatchedInV2 ==
    /\ ~V1Running =>
        /\ Len(posts) <= 1
        /\ (pc \in {"load", "pool", "send"} \/ exception = "ConfigLoadError") => posts = <<>>
        /\ (pc \in {"summarise", "done"} \/ exception = "RequestException") =>
            IF TotalMatches(results) >= 1
            THEN /\ Len(posts) = 1
                 /\ PayloadCovers(posts[1], select_alerts(results))
                 /\ Len(posts[1].attachments) = TotalMatches(results)
            ELSE posts = <<>>
    /\ V1Running => Len(posts) = V1MatchedUpTo(Len(fetched))

\* function_v2.py: three matched entries across two feeds, one POST with
\* three attachments
C2_Witness ==
    /\ pc = "done"
    /\ Len(alerts) = 2
    /\ TotalMatches(results) = 3
    /\ Len(posts) = 1
    /\ Len(posts[1].attachments) = 3

====
